---- MODULE Spec2Model ----
(***************************************************************************)
(* bl602-hal: the GPIO pin mode machine, the UART signal multiplexer, the  *)
(* input-pin interrupt facet (src/src/gpio.rs) and the mcycle delay        *)
(* provider (src/src/delay.rs), as a state machine over the GLB register   *)
(* fields the code reads and writes.                                       *)
(*                                                                         *)
(* A register is a function from its fields to their values; a field of a  *)
(* per-pin register is identified by the pin (and the field name where the *)
(* register holds several fields per pin).  The type-state of a handle     *)
(* (PhantomData<MODE>) is the value of pin_mode / uart_mux; an impl block  *)
(* restricted to $Pini<Input<MODE>> is a guard on the family of the tag.   *)
(***************************************************************************)
EXTENDS Integers, Sequences, FiniteSets, TLC

(***************************************************************************)
(* Bounds of the exploration.                                              *)
(***************************************************************************)
\* cycles the counter advances in one explored run
MaxTicks == 5

\* the pins the mode machine is explored on: two pins that share gpio_cfgctl0
ActivePins == {0, 1}
\* the multiplexer instances routings are applied to
ActiveMux == {0, 2}
\* the pin and the multiplexer the machine with every facet is explored on:
\* the last pin, alone in gpio_cfgctl11 and in gpio_int_mode_set3
FacetPins == {22}
FacetMux == {2}

(***************************************************************************)
(* Program constants.                                                      *)
(***************************************************************************)
NumPins == 23
NumUartSig == 8
GPIO_FUN_SWGPIO == 11
GPIO_FUN_PWM == 8
GPIO_FUN_UART == 7
GPIO_FUN_SPI == 4
GPIO_FUN_I2C == 6

Pins == 0 .. (NumPins - 1)
UartSigs == 0 .. (NumUartSig - 1)

\* an Event numbering with the two level events exchanged
EventCodeLevelsSwapped(event) ==
    CASE event = "NegativePulse" -> 0
      [] event = "PositivePulse" -> 1
      [] event = "NegativeLevel" -> 3
      [] event = "HighLevel" -> 2

\* Event as u8
EventCode(event) ==
    CASE event = "NegativePulse" -> 0
      [] event = "PositivePulse" -> 1
      [] event = "NegativeLevel" -> 2
      [] event = "HighLevel" -> 3
Events == {"NegativePulse", "PositivePulse", "NegativeLevel", "HighLevel"}

(***************************************************************************)
(* Type states.                                                            *)
(***************************************************************************)
Tag(f, m) == [family |-> f, pull |-> m]
NoHandle == Tag("None", "None")
Pulls == {"Floating", "PullUp", "PullDown"}
Input(m) == Tag("Input", m)
Output(m) == Tag("Output", m)
Pwm(m) == Tag("Pwm", m)
Uart == Tag("Uart", "None")
Spi == Tag("Spi", "None")
I2c == Tag("I2c", "None")
PinTags ==
    {Tag(f, m) : f \in {"Input", "Output", "Pwm"}, m \in Pulls} \cup {Uart, Spi, I2c}

UartRoles ==
    {"Uart0Rts", "Uart0Cts", "Uart0Tx", "Uart0Rx",
     "Uart1Rts", "Uart1Cts", "Uart1Tx", "Uart1Rx"}

(***************************************************************************)
(* The impl_glb! pin table: the registers a pin's fields live in.          *)
(***************************************************************************)
\* $gpio_cfgctli: gpio_cfgctl0 .. gpio_cfgctl11, two pins per register
CfgReg(p) == p \div 2
CfgRegs == {CfgReg(p) : p \in Pins}
\* $gpio_int_mode_seti: gpio_int_mode_set1 .. gpio_int_mode_set3, ten pins each
IntModeReg(p) == (p \div 10) + 1
IntModeRegs == {IntModeReg(p) : p \in Pins}
\* $UartSigi / $sigi: the UART signal a pin can carry
UartSigOf(p) == p % NumUartSig

CfgFields == {"func_sel", "ie", "pu", "pd", "drv", "smt"}
IntModeFields == {"interrupt_trigger_mode", "interrupt_control_mode"}
CfgFieldsOf(r) == {p \in Pins : CfgReg(p) = r} \X CfgFields
IntModeFieldsOf(r) == {p \in Pins : IntModeReg(p) = r} \X IntModeFields

VARIABLES
    glb,               \* the pac::GLB singleton: "owned" until split consumes it
    pin_mode,          \* Parts.pin0 .. pin22: the tag of the pin's live handle
    uart_mux,          \* Parts.uart_mux0 .. uart_mux7: the tag of the live handle
    clk_cfg,           \* Parts.clk_cfg: TRUE once the ClkCfg handle exists
    gpio_cfgctl,       \* gpio_cfgctl0 .. 11: func_sel, ie, pu, pd, drv, smt per pin
    gpio_cfgctl30,     \* reg_gpio_N_i: input level
    gpio_cfgctl32,     \* reg_gpio_N_o: output latch
    gpio_cfgctl34,     \* reg_gpio_N_oe: output enable
    uart_sig_sel_0,    \* uart_sig_K_sel: selector of signal K
    gpio_int_mode_set, \* gpio_int_mode_set1 .. 3: trigger and control mode
    gpio_int_mask1,    \* reg_gpio_N_mask
    gpio_int_clr1,     \* reg_gpio_N_interrupt_clear
    gpio_int_stat1,    \* reg_gpio_N_interrupt_status
    mcycle,            \* the mcycle counter of the hart (64 bits)
    start_cycle_count, \* the sample taken by get_cycle_count
    elapsed,           \* cycles the counter advanced since that sample,
                       \* -1 while no sample was taken
    ticks,             \* cycles the counter advanced since Init
    dlast,             \* the last delay operation: name, argument, result
    core_frequency,    \* McycleDelay.core_frequency (u32, zero-extended)
    cycle_count,       \* the argument of the delay_cycles call under way
    delay_pc,          \* where delay_cycles is: "idle", "loop", "done", "panicked"
    ctx                \* the execution contexts of the stepped operations

\* every GLB register the pin and multiplexer code touches
regs ==
    <<gpio_cfgctl, gpio_cfgctl30, gpio_cfgctl32, gpio_cfgctl34, uart_sig_sel_0,
      gpio_int_mode_set, gpio_int_mask1, gpio_int_clr1, gpio_int_stat1>>
handles == <<glb, pin_mode, uart_mux, clk_cfg>>
gpio_vars == <<handles, regs>>
wait_vars == <<core_frequency, cycle_count, delay_pc>>
delay_vars == <<mcycle, start_cycle_count, elapsed, ticks, dlast, wait_vars>>
vars == <<gpio_vars, delay_vars, ctx>>

(***************************************************************************)
(* Register access (svd2rust): read() returns the register, modify() reads *)
(* it, lets the closure write some fields of the value read, and writes    *)
(* the result back, so the fields the closure does not name keep the value *)
(* that was read.                                                          *)
(***************************************************************************)
\* .bit(b) of a one-bit field
Bit(b) == IF b THEN 1 ELSE 0

\* reg.write(...) in place of modify(): the fields the closure does not name
\* get the reset value 0
write_from_reset(reg, w) ==
    [f \in DOMAIN reg |-> IF f \in DOMAIN w THEN w[f] ELSE 0]

\* reg.modify(|_, w| w.f1().bits(v1).f2().bits(v2) ...), w the fields written
modify(reg, w) ==
    [f \in DOMAIN reg |-> IF f \in DOMAIN w THEN w[f] ELSE reg[f]]

\* field f of pin p in its configuration register
Cfg(p, f) == gpio_cfgctl[CfgReg(p)][<<p, f>>]
\* field f of pin p in its interrupt mode register
IntMode(p, f) == gpio_int_mode_set[IntModeReg(p)][<<p, f>>]

(***************************************************************************)
(* Register contents before the HAL runs: three images stand for what a    *)
(* boot loader may leave in a pin's fields (all clear, all set, mixed);     *)
(* neighbouring pins get different images.                                 *)
(***************************************************************************)
BootImage(n) ==
    CASE n = 0 -> [func_sel |-> 0, ie |-> 0, pu |-> 0, pd |-> 0, drv |-> 0, smt |-> 0,
                   i |-> 0, o |-> 0, oe |-> 0, sel |-> 0,
                   interrupt_trigger_mode |-> 0,
                   interrupt_control_mode |-> "synchronous",
                   mask |-> "unmasked", clr |-> 0, stat |-> 0]
      [] n = 1 -> [func_sel |-> 15, ie |-> 1, pu |-> 1, pd |-> 1, drv |-> 3, smt |-> 1,
                   i |-> 1, o |-> 1, oe |-> 1, sel |-> 15,
                   interrupt_trigger_mode |-> 3,
                   interrupt_control_mode |-> "asynchronous",
                   mask |-> "masked", clr |-> 1, stat |-> 1]
      [] n = 2 -> [func_sel |-> 11, ie |-> 1, pu |-> 0, pd |-> 1, drv |-> 2, smt |-> 1,
                   i |-> 0, o |-> 1, oe |-> 1, sel |-> 7,
                   interrupt_trigger_mode |-> 1,
                   interrupt_control_mode |-> "synchronous",
                   mask |-> "masked", clr |-> 0, stat |-> 0]
BootImages == 0 .. 2
ImageOf(b, k) == BootImage((b + k) % 3)

\* the execution contexts a pin handle can be used from: the main program
\* and an interrupt handler that was given a handle
Contexts == {"main", "irq"}
\* a context that is not inside an operation
IdleContext == [pc |-> "idle"]

\* the GLB before split, its registers as boot image b left them
GpioBoot(b) ==
    /\ ctx = [c \in Contexts |-> IdleContext]
    /\ glb = "owned"
    /\ pin_mode = [p \in Pins |-> NoHandle]
    /\ uart_mux = [k \in UartSigs |-> "None"]
    /\ clk_cfg = FALSE
    /\ gpio_cfgctl =
           [r \in CfgRegs |->
               [f \in CfgFieldsOf(r) |-> ImageOf(b, f[1])[f[2]]]]
    /\ gpio_cfgctl30 = [p \in Pins |-> ImageOf(b, p).i]
    /\ gpio_cfgctl32 = [p \in Pins |-> ImageOf(b, p).o]
    /\ gpio_cfgctl34 = [p \in Pins |-> ImageOf(b, p).oe]
    /\ uart_sig_sel_0 = [k \in UartSigs |-> ImageOf(b, k).sel]
    /\ gpio_int_mode_set =
           [r \in IntModeRegs |->
               [f \in IntModeFieldsOf(r) |-> ImageOf(b, f[1])[f[2]]]]
    /\ gpio_int_mask1 = [p \in Pins |-> ImageOf(b, p).mask]
    /\ gpio_int_clr1 = [p \in Pins |-> ImageOf(b, p).clr]
    /\ gpio_int_stat1 = [p \in Pins |-> ImageOf(b, p).stat]

GpioInit == \E b \in BootImages : GpioBoot(b)

(***************************************************************************)
(* GlbExt::split: takes the GLB singleton by value and builds Parts.       *)
(***************************************************************************)
\* a split that borrows the register block instead of consuming it
split_by_reference ==
    /\ glb' = glb
    /\ pin_mode' = [p \in Pins |-> Input("Floating")]
    /\ uart_mux' = [k \in UartSigs |-> "Uart0Cts"]
    /\ clk_cfg' = TRUE
    /\ UNCHANGED <<regs, delay_vars, ctx>>

split ==
    /\ glb = "owned"
    /\ glb' = "consumed"
    /\ pin_mode' = [p \in Pins |-> Input("Floating")]
    /\ uart_mux' = [k \in UartSigs |-> "Uart0Cts"]
    /\ clk_cfg' = TRUE
    /\ UNCHANGED <<regs, delay_vars, ctx>>

(***************************************************************************)
(* Mode transitions of a pin: impl<MODE> $Pini<MODE>.  Each takes self by  *)
(* value, so it needs the pin's live handle, whatever its tag.             *)
(***************************************************************************)
\* a transition that leaves the drive strength and the schmitt filter alone
CfgWriteKeepDrvSmt(p, mode, pu, pd, ie) ==
    [f \in {p} \X {"func_sel", "ie", "pu", "pd"} |->
        CASE f[2] = "func_sel" -> mode
          [] f[2] = "ie" -> Bit(ie)
          [] f[2] = "pu" -> Bit(pu)
          [] f[2] = "pd" -> Bit(pd)]

\* the configuration fields a transition writes
CfgWrite(p, mode, pu, pd, ie) ==
    [f \in {p} \X CfgFields |->
        CASE f[2] = "func_sel" -> mode
          [] f[2] = "ie" -> Bit(ie)
          [] f[2] = "pu" -> Bit(pu)
          [] f[2] = "pd" -> Bit(pd)
          [] f[2] = "drv" -> 0
          [] f[2] = "smt" -> 0]

\* a transition that writes the output enable bit with the input enable value
OeWriteNotNegated(r, p, ie) == [q \in {p} |-> Bit(ie)]

\* a transition that flips the output enable bit it reads
OeWriteFlip(r, p, ie) == [q \in {p} |-> 1 - r[p]]

\* the output enable field a transition writes, r the register value read
OeWrite(r, p, ie) == [q \in {p} |-> Bit(~ie)]

\* gpio_cfgctlN after the first modify of into_pin_with_mode
cfgctl_with_mode(r, p, mode, pu, pd, ie) == modify(r, CfgWrite(p, mode, pu, pd, ie))
\* gpio_cfgctl34 after the second modify of into_pin_with_mode
oe_with_mode(r, p, ie) == modify(r, OeWrite(r, p, ie))

into_pin_with_mode(p, mode, pu, pd, ie, T) ==
    /\ pin_mode[p] # NoHandle
    /\ gpio_cfgctl' =
           [gpio_cfgctl EXCEPT
               ![CfgReg(p)] = cfgctl_with_mode(@, p, mode, pu, pd, ie)]
    /\ gpio_cfgctl34' = oe_with_mode(gpio_cfgctl34, p, ie)
    /\ pin_mode' = [pin_mode EXCEPT ![p] = T]
    /\ UNCHANGED <<glb, uart_mux, clk_cfg, gpio_cfgctl30, gpio_cfgctl32,
                   uart_sig_sel_0, gpio_int_mode_set, gpio_int_mask1,
                   gpio_int_clr1, gpio_int_stat1, delay_vars, ctx>>

\* the arguments each transition passes to into_pin_with_mode, and the tag
\* of the handle it returns
ModeArgs(name) ==
    CASE name = "into_floating_output" ->
            [mode |-> GPIO_FUN_SWGPIO, pu |-> FALSE, pd |-> FALSE, ie |-> FALSE,
             tag |-> Output("Floating")]
      [] name = "into_pull_up_output" ->
            [mode |-> GPIO_FUN_SWGPIO, pu |-> TRUE, pd |-> FALSE, ie |-> FALSE,
             tag |-> Output("PullUp")]
      [] name = "into_pull_down_output" ->
            [mode |-> GPIO_FUN_SWGPIO, pu |-> FALSE, pd |-> TRUE, ie |-> FALSE,
             tag |-> Output("PullDown")]
      [] name = "into_floating_input" ->
            [mode |-> GPIO_FUN_SWGPIO, pu |-> FALSE, pd |-> FALSE, ie |-> TRUE,
             tag |-> Input("Floating")]
      [] name = "into_pull_up_input" ->
            [mode |-> GPIO_FUN_SWGPIO, pu |-> TRUE, pd |-> FALSE, ie |-> TRUE,
             tag |-> Input("PullUp")]
      [] name = "into_pull_down_input" ->
            [mode |-> GPIO_FUN_SWGPIO, pu |-> FALSE, pd |-> TRUE, ie |-> TRUE,
             tag |-> Input("PullDown")]
      [] name = "into_pull_down_pwm" ->
            [mode |-> GPIO_FUN_PWM, pu |-> FALSE, pd |-> TRUE, ie |-> TRUE,
             tag |-> Pwm("PullDown")]
      [] name = "into_pull_up_pwm" ->
            [mode |-> GPIO_FUN_PWM, pu |-> FALSE, pd |-> TRUE, ie |-> TRUE,
             tag |-> Pwm("PullUp")]
      [] name = "into_floating_pwm" ->
            [mode |-> GPIO_FUN_PWM, pu |-> FALSE, pd |-> FALSE, ie |-> TRUE,
             tag |-> Pwm("Floating")]
      [] name = "into_uart_sig" ->
            [mode |-> GPIO_FUN_UART, pu |-> TRUE, pd |-> FALSE, ie |-> TRUE,
             tag |-> Uart]
      [] name = "into_spi" ->
            [mode |-> GPIO_FUN_SPI, pu |-> TRUE, pd |-> FALSE, ie |-> TRUE,
             tag |-> Spi]
      [] name = "into_i2c" ->
            [mode |-> GPIO_FUN_I2C, pu |-> TRUE, pd |-> FALSE, ie |-> TRUE,
             tag |-> I2c]

\* the transition called name, on pin p
into(p, name) ==
    into_pin_with_mode(p, ModeArgs(name).mode, ModeArgs(name).pu, ModeArgs(name).pd,
                       ModeArgs(name).ie, ModeArgs(name).tag)

into_floating_output(p) == into(p, "into_floating_output")
into_pull_up_output(p) == into(p, "into_pull_up_output")
into_pull_down_output(p) == into(p, "into_pull_down_output")
into_floating_input(p) == into(p, "into_floating_input")
into_pull_up_input(p) == into(p, "into_pull_up_input")
into_pull_down_input(p) == into(p, "into_pull_down_input")
into_pull_down_pwm(p) == into(p, "into_pull_down_pwm")
into_pull_up_pwm(p) == into(p, "into_pull_up_pwm")
into_floating_pwm(p) == into(p, "into_floating_pwm")
\* into_uart_sigN, N = UartSigOf(p)
into_uart_sig(p) == into(p, "into_uart_sig")
\* into_spi_miso / _mosi / _ss / _sclk
into_spi(p) == into(p, "into_spi")
\* into_i2c_scl / _sda
into_i2c(p) == into(p, "into_i2c")

(***************************************************************************)
(* Operations of an input pin: impl<MODE> $Pini<Input<MODE>>.              *)
(***************************************************************************)
\* an impl block that forgets the Input<_> restriction
IsAnyPin(p) == pin_mode[p] # NoHandle

\* the handle of p has type $Pini<Input<MODE>>
IsInputPin(p) == pin_mode[p].family = "Input"

\* the handle of p has type $Pini<Output<MODE>>
IsOutputPin(p) == pin_mode[p].family = "Output"

\* a filter switch that also turns the pin's pull-up on
cfgctl_with_smt_and_pu(r, p, v) ==
    modify(r, [g \in {<<p, "smt">>, <<p, "pu">>} |-> IF g[2] = "smt" THEN v ELSE 1])

\* gpio_cfgctlN after enable_smitter (v = 1) and disable_smitter (v = 0)
cfgctl_with_smt(r, p, v) == modify(r, [g \in {<<p, "smt">>} |-> v])

smitter(p, v) ==
    /\ IsInputPin(p)
    /\ gpio_cfgctl' = [gpio_cfgctl EXCEPT ![CfgReg(p)] = cfgctl_with_smt(@, p, v)]
    /\ UNCHANGED <<handles, gpio_cfgctl30, gpio_cfgctl32, gpio_cfgctl34,
                   uart_sig_sel_0, gpio_int_mode_set, gpio_int_mask1,
                   gpio_int_clr1, gpio_int_stat1, delay_vars, ctx>>

enable_smitter(p) == smitter(p, 1)
disable_smitter(p) == smitter(p, 0)

\* what is_high / is_low return
is_high_inner(p) == gpio_cfgctl30[p] = 1
is_low_inner(p) == gpio_cfgctl30[p] = 0

\* InputPin::is_high / is_low (embedded-hal 0.2 and 1.0 alike): reads only
is_high(p) == IsInputPin(p) /\ UNCHANGED vars
is_low(p) == IsInputPin(p) /\ UNCHANGED vars

(***************************************************************************)
(* InterruptPin for $Pini<Input<MODE>>                                     *)
(***************************************************************************)
int_mode(p, f, v) ==
    /\ IsInputPin(p)
    /\ gpio_int_mode_set' =
           [gpio_int_mode_set EXCEPT
               ![IntModeReg(p)] = modify(@, [g \in {<<p, f>>} |-> v])]
    /\ UNCHANGED <<handles, gpio_cfgctl, gpio_cfgctl30, gpio_cfgctl32, gpio_cfgctl34,
                   uart_sig_sel_0, gpio_int_mask1, gpio_int_clr1, gpio_int_stat1,
                   delay_vars, ctx>>

trigger_on_event(p, event) == int_mode(p, "interrupt_trigger_mode", EventCode(event))
control_asynchronous(p) == int_mode(p, "interrupt_control_mode", "asynchronous")
control_synchronous(p) == int_mode(p, "interrupt_control_mode", "synchronous")

\* a mask update by write() instead of modify(): the other pins' bits get
\* the reset value
mask_with_reset(r, p, v) == [q \in DOMAIN r |-> IF q = p THEN v ELSE "masked"]

\* a mask update that sets the pin's bit in the register as it is at the
\* write, not in the value read
mask_with_current(r, p, v) == modify(gpio_int_mask1, [q \in {p} |-> v])

\* gpio_int_mask1 after enable_interrupt / disable_interrupt, r the value read
mask_with(r, p, v) == modify(r, [q \in {p} |-> v])

int_mask(p, v) ==
    /\ IsInputPin(p)
    /\ gpio_int_mask1' = mask_with(gpio_int_mask1, p, v)
    /\ UNCHANGED <<handles, gpio_cfgctl, gpio_cfgctl30, gpio_cfgctl32, gpio_cfgctl34,
                   uart_sig_sel_0, gpio_int_mode_set, gpio_int_clr1, gpio_int_stat1,
                   delay_vars, ctx>>

enable_interrupt(p) == int_mask(p, "unmasked")
disable_interrupt(p) == int_mask(p, "masked")

clear_interrupt_pending_bit(p) ==
    /\ IsInputPin(p)
    /\ gpio_int_clr1' = modify(gpio_int_clr1, [q \in {p} |-> 0])
    /\ UNCHANGED <<handles, gpio_cfgctl, gpio_cfgctl30, gpio_cfgctl32, gpio_cfgctl34,
                   uart_sig_sel_0, gpio_int_mode_set, gpio_int_mask1, gpio_int_stat1,
                   delay_vars, ctx>>

\* what check_interrupt returns
interrupt_status_is_set(p) == gpio_int_stat1[p] = 1
check_interrupt(p) == IsInputPin(p) /\ UNCHANGED vars

(***************************************************************************)
(* Operations of an output pin: impl<MODE> ... for $Pini<Output<MODE>>.    *)
(***************************************************************************)
\* gpio_cfgctl32 after set_high_inner / set_low_inner, r the register value
set_high_inner(r, p) == modify(r, [q \in {p} |-> 1])
set_low_inner(r, p) == modify(r, [q \in {p} |-> 0])

\* what is_set_high returns, r the value of gpio_cfgctl32
is_output_high_inner(r, p) == r[p] = 1

\* is_set_low answering with the test of is_set_high
is_output_low_same_test(r, p) == r[p] = 1

\* what is_set_low returns, r the value of gpio_cfgctl32
is_output_low_inner(r, p) == r[p] = 0

latch(p, r) ==
    /\ IsOutputPin(p)
    /\ gpio_cfgctl32' = r
    /\ UNCHANGED <<handles, gpio_cfgctl, gpio_cfgctl30, gpio_cfgctl34,
                   uart_sig_sel_0, gpio_int_mode_set, gpio_int_mask1,
                   gpio_int_clr1, gpio_int_stat1, delay_vars, ctx>>

\* OutputPin::set_high / set_low
set_high(p) == latch(p, set_high_inner(gpio_cfgctl32, p))
set_low(p) == latch(p, set_low_inner(gpio_cfgctl32, p))

\* StatefulOutputPin::is_set_high / is_set_low: read only
is_set_high(p) == IsOutputPin(p) /\ UNCHANGED vars
is_set_low(p) == IsOutputPin(p) /\ UNCHANGED vars

\* a toggle that drives the pin high whatever it reads
toggle_always_high(r, p) == set_high_inner(r, p)

\* gpio_cfgctl32 after ToggleableOutputPin::toggle, r the register value
toggle_inner(r, p) ==
    IF is_output_high_inner(r, p) THEN set_low_inner(r, p) ELSE set_high_inner(r, p)

toggle(p) == latch(p, toggle_inner(gpio_cfgctl32, p))

(***************************************************************************)
(* The UART signal multiplexers: impl<MODE> $UartMuxi<MODE>.               *)
(***************************************************************************)
\* the uart_sig_K_sel field into_uart_mode writes
SelWrite(k, mode) == [j \in {k} |-> mode]

into_uart_mode(k, mode, T) ==
    /\ uart_mux[k] # "None"
    /\ uart_sig_sel_0' = modify(uart_sig_sel_0, SelWrite(k, mode))
    /\ uart_mux' = [uart_mux EXCEPT ![k] = T]
    /\ UNCHANGED <<glb, pin_mode, clk_cfg, gpio_cfgctl, gpio_cfgctl30, gpio_cfgctl32,
                   gpio_cfgctl34, gpio_int_mode_set, gpio_int_mask1, gpio_int_clr1,
                   gpio_int_stat1, delay_vars, ctx>>

\* routing codes with UART1-TX and UART1-RX exchanged
RoleCodeSwapped(role) ==
    CASE role = "Uart0Rts" -> 0 [] role = "Uart0Cts" -> 1
      [] role = "Uart0Tx" -> 2 [] role = "Uart0Rx" -> 3
      [] role = "Uart1Rts" -> 4 [] role = "Uart1Cts" -> 5
      [] role = "Uart1Tx" -> 7 [] role = "Uart1Rx" -> 6

\* the mode each into_uartN_x passes to into_uart_mode
RoleCode(role) ==
    CASE role = "Uart0Rts" -> 0 [] role = "Uart0Cts" -> 1
      [] role = "Uart0Tx" -> 2 [] role = "Uart0Rx" -> 3
      [] role = "Uart1Rts" -> 4 [] role = "Uart1Cts" -> 5
      [] role = "Uart1Tx" -> 6 [] role = "Uart1Rx" -> 7

\* the routing of multiplexer k to role
route(k, role) == into_uart_mode(k, RoleCode(role), role)

into_uart0_rts(k) == route(k, "Uart0Rts")
into_uart0_cts(k) == route(k, "Uart0Cts")
into_uart0_tx(k) == route(k, "Uart0Tx")
into_uart0_rx(k) == route(k, "Uart0Rx")
into_uart1_rts(k) == route(k, "Uart1Rts")
into_uart1_cts(k) == route(k, "Uart1Cts")
into_uart1_tx(k) == route(k, "Uart1Tx")
into_uart1_rx(k) == route(k, "Uart1Rx")

(***************************************************************************)
(* 64-bit unsigned values (u64), as eight base-256 digits, least           *)
(* significant first: TLC's own integers are 32 bits wide.                 *)
(***************************************************************************)
Digits == 1 .. 8
Base == 256
U64Zero == [k \in Digits |-> 0]
U64Max == [k \in Digits |-> Base - 1]
\* the u64 of a natural number n < Base^3
U64Of(n) ==
    [k \in Digits |->
        CASE k = 1 -> n % Base
          [] k = 2 -> (n \div Base) % Base
          [] k = 3 -> (n \div (Base * Base)) % Base
          [] OTHER -> 0]

\* a < b, comparing from digit k down
RECURSIVE LessFrom(_, _, _)
LessFrom(a, b, k) ==
    IF k = 0 THEN FALSE
    ELSE IF a[k] # b[k] THEN a[k] < b[k]
    ELSE LessFrom(a, b, k - 1)
U64Less(a, b) == LessFrom(a, b, 8)

\* the carry into digit k of a + b
RECURSIVE Carry(_, _, _)
Carry(a, b, k) ==
    IF k = 1 THEN 0
    ELSE IF a[k - 1] + b[k - 1] + Carry(a, b, k - 1) >= Base THEN 1 ELSE 0
\* u64::wrapping_add: a + b modulo 2^64
wrapping_add(a, b) == [k \in Digits |-> (a[k] + b[k] + Carry(a, b, k)) % Base]

\* the borrow from digit k of a - b
RECURSIVE Borrow(_, _, _)
Borrow(a, b, k) ==
    IF k = 1 THEN 0
    ELSE IF a[k - 1] - b[k - 1] - Borrow(a, b, k - 1) < 0 THEN 1 ELSE 0
\* the digits of a - b modulo 2^64
SubDigits(a, b) == [k \in Digits |-> (a[k] - b[k] - Borrow(a, b, k) + Base) % Base]

\* a <= b
U64LessEq(a, b) == ~U64Less(b, a)

\* the u64 of a natural number n < 2^31
U64From(n) ==
    [k \in Digits |->
        CASE k = 1 -> n % Base
          [] k = 2 -> (n \div Base) % Base
          [] k = 3 -> (n \div (Base * Base)) % Base
          [] k = 4 -> n \div (Base * Base * Base)
          [] OTHER -> 0]
\* 2^e as a u64, e < 64
U64Pow2(e) ==
    [k \in Digits |-> IF k = (e \div 8) + 1 THEN 2 ^ (e % 8) ELSE 0]
\* u32::MAX as u64
U32Max == [k \in Digits |-> IF k <= 4 THEN Base - 1 ELSE 0]

\* the digits of the full 128-bit product of two u64
WideDigits == 1 .. 16
\* the sum of a[i] * b[k + 1 - i] over the digits i .. 8 of a
RECURSIVE ColumnFrom(_, _, _, _)
ColumnFrom(a, b, k, i) ==
    IF i > 8 THEN 0
    ELSE (IF k + 1 - i \in Digits THEN a[i] * b[k + 1 - i] ELSE 0)
         + ColumnFrom(a, b, k, i + 1)
\* the carry into digit k of a * b
RECURSIVE MulCarry(_, _, _)
MulCarry(a, b, k) ==
    IF k = 1 THEN 0
    ELSE (ColumnFrom(a, b, k - 1, 1) + MulCarry(a, b, k - 1)) \div Base
\* a * b, all 128 bits
WideMul(a, b) ==
    [k \in WideDigits |-> (ColumnFrom(a, b, k, 1) + MulCarry(a, b, k)) % Base]
\* a * b does not fit 64 bits
mul_overflows(a, b) == \E k \in 9 .. 16 : WideMul(a, b)[k] # 0
\* the low 64 bits of a * b: what `a * b` is where overflow checks are off
wrapping_mul(a, b) == [k \in Digits |-> WideMul(a, b)[k]]

\* the remainder of the digits n .. k of a, divided by d < 2^23
RECURSIVE RemFrom(_, _, _, _)
RemFrom(a, d, k, n) ==
    IF k > n THEN 0 ELSE (RemFrom(a, d, k + 1, n) * Base + a[k]) % d
\* a / d for an n-digit a and a divisor d < 2^23
DivSmall(a, d, n) ==
    [k \in 1 .. n |-> (RemFrom(a, d, k + 1, n) * Base + a[k]) \div d]
\* u64 a / d
div(a, d) == DivSmall(a, d, 8)

\* u64::saturating_sub: 0 when b > a
saturating_sub(a, b) == IF U64Less(a, b) THEN U64Zero ELSE SubDigits(a, b)

\* u64::wrapping_sub: a - b modulo 2^64
wrapping_sub(a, b) == SubDigits(a, b)

(***************************************************************************)
(* McycleDelay                                                             *)
(***************************************************************************)
\* counter values a run starts from: around 0, around the 64-bit maximum,
\* and where a carry crosses one, four and seven digits
CounterSamples ==
    {U64Zero, U64Max, wrapping_sub(U64Max, U64Of(2)), U64Of(Base - 1),
     [k \in Digits |-> IF k <= 4 THEN Base - 1 ELSE 0],
     [k \in Digits |-> IF k <= 7 THEN Base - 1 ELSE 0]}

NoDelayOp == [op |-> "none", arg |-> U64Zero, ret |-> U64Zero]

\* no McycleDelay was constructed and no delay_cycles call is under way
NoDelayProvider ==
    /\ core_frequency = U64Zero
    /\ cycle_count = U64Zero
    /\ delay_pc = "idle"

DelayIdle ==
    /\ mcycle = U64Zero
    /\ start_cycle_count = U64Zero
    /\ elapsed = -1
    /\ ticks = 0
    /\ dlast = NoDelayOp
    /\ NoDelayProvider

DelayInit ==
    /\ mcycle \in CounterSamples
    /\ start_cycle_count = U64Zero
    /\ elapsed = -1
    /\ ticks = 0
    /\ dlast = NoDelayOp
    /\ NoDelayProvider

\* the hart runs one cycle: mcycle counts up and wraps at 2^64
tick ==
    /\ ticks < MaxTicks
    /\ mcycle' = wrapping_add(mcycle, U64Of(1))
    /\ elapsed' = IF elapsed >= 0 THEN elapsed + 1 ELSE elapsed
    /\ ticks' = ticks + 1
    /\ dlast' = NoDelayOp
    /\ UNCHANGED <<start_cycle_count, wait_vars, gpio_vars, ctx>>

\* McycleDelay::get_cycle_count, its result kept as the start sample
get_cycle_count ==
    /\ start_cycle_count' = mcycle
    /\ elapsed' = 0
    /\ dlast' = [op |-> "get_cycle_count", arg |-> U64Zero, ret |-> mcycle]
    /\ UNCHANGED <<mcycle, ticks, wait_vars, gpio_vars, ctx>>

\* McycleDelay::cycles_since(previous_cycle_count)
cycles_since(previous_cycle_count) ==
    /\ dlast' = [op |-> "cycles_since", arg |-> previous_cycle_count,
                 ret |-> wrapping_sub(mcycle, previous_cycle_count)]
    /\ UNCHANGED <<mcycle, start_cycle_count, elapsed, ticks, wait_vars, gpio_vars, ctx>>

\* the hart runs on for 2^63 cycles (a long wait seen between two samples of
\* the counter); the cycle tally `elapsed` counts single cycles only and is
\* given up
stall ==
    /\ mcycle' = wrapping_add(mcycle, U64Pow2(63))
    /\ elapsed' = -1
    /\ dlast' = NoDelayOp
    /\ UNCHANGED <<start_cycle_count, ticks, wait_vars, gpio_vars, ctx>>

\* the entry of delay_cycles(n), called as `name` with argument `arg`:
\* let start_cycle_count = McycleDelay::get_cycle_count()
enter_delay_cycles(name, arg, n) ==
    /\ delay_pc = "idle"
    /\ start_cycle_count' = mcycle
    /\ elapsed' = 0
    /\ cycle_count' = n
    /\ delay_pc' = "loop"
    /\ dlast' = [op |-> name, arg |-> arg, ret |-> n]
    /\ UNCHANGED <<mcycle, ticks, core_frequency, gpio_vars, ctx>>

\* McycleDelay::delay_cycles(cycle_count)
delay_cycles(n) == enter_delay_cycles("delay_cycles", n, n)

\* a loop test that lets the loop go on only while the sample is below n
loop_test_strict(sample, n) == U64Less(sample, n)

\* the loop test: cycles_since(start_cycle_count) <= cycle_count
loop_test(sample, n) == U64LessEq(sample, n)

\* one evaluation of `while cycles_since(start_cycle_count) <= cycle_count {}`
delay_loop ==
    /\ delay_pc = "loop"
    /\ LET sample == wrapping_sub(mcycle, start_cycle_count) IN
        /\ delay_pc' = IF loop_test(sample, cycle_count) THEN "loop" ELSE "done"
        /\ dlast' = [op |-> "cycles_since", arg |-> start_cycle_count,
                     ret |-> sample]
    /\ UNCHANGED <<mcycle, start_cycle_count, elapsed, ticks, core_frequency,
                   cycle_count, gpio_vars, ctx>>

\* the cycles a time t is converted to, `(t * freq) / per_second`, where the
\* multiplication wraps (overflow checks off)
cycles_of(t, freq, per_second) == div(wrapping_mul(t, freq), per_second)

\* delay_us / delay_ms where `t * (self.core_frequency as u64)` fits 64 bits,
\* or wraps because the build has overflow checks off
delay_time(name, t, per_second) ==
    enter_delay_cycles(name, t, cycles_of(t, core_frequency, per_second))

\* delay_us / delay_ms where the multiplication overflows and the build has
\* overflow checks on: the call panics
delay_time_panics(name, t) ==
    /\ delay_pc = "idle"
    /\ mul_overflows(t, core_frequency)
    /\ delay_pc' = "panicked"
    /\ dlast' = [op |-> name, arg |-> t, ret |-> U64Zero]
    /\ UNCHANGED <<mcycle, start_cycle_count, elapsed, ticks, core_frequency,
                   cycle_count, gpio_vars, ctx>>

\* DelayUs<u64>::delay_us
delay_us(us) ==
    \/ delay_time("delay_us", us, 1000000)
    \/ delay_time_panics("delay_us", us)

\* DelayMs<u64>::delay_ms
delay_ms(ms) ==
    \/ delay_time("delay_ms", ms, 1000)
    \/ delay_time_panics("delay_ms", ms)

(***************************************************************************)
(* The operations step by step.  Every register update of the HAL is a     *)
(* modify(): a read of the register, then a write of the value read with   *)
(* the closure's fields replaced.  Nothing in the code masks interrupts or *)
(* takes a lock around the two, so another context holding another pin's   *)
(* handle can run between them.                                            *)
(***************************************************************************)
OutputTransitions ==
    {"into_floating_output", "into_pull_up_output", "into_pull_down_output"}
InputTransitions ==
    {"into_floating_input", "into_pull_up_input", "into_pull_down_input"}
PwmTransitions == {"into_pull_down_pwm", "into_pull_up_pwm", "into_floating_pwm"}
AlternateTransitions == {"into_uart_sig", "into_spi", "into_i2c"}
NonPwmTransitions == OutputTransitions \cup InputTransitions \cup AlternateTransitions
Transitions == NonPwmTransitions \cup PwmTransitions

SmitterOps == {"enable_smitter", "disable_smitter"}
LatchOps == {"set_high", "set_low", "toggle"}
MaskOps == {"enable_interrupt", "disable_interrupt"}

\* a transition that returns after its first modify()
ModifyCountOne(op) == 1

\* the number of modify() calls of an operation
ModifyCount(op) == IF op \in Transitions THEN 2 ELSE 1

\* the register the i-th modify() of an operation works on
ModifyReg(op, i) ==
    CASE op \in Transitions /\ i = 1 -> "gpio_cfgctl"
      [] op \in Transitions /\ i = 2 -> "gpio_cfgctl34"
      [] op \in SmitterOps -> "gpio_cfgctl"
      [] op \in LatchOps -> "gpio_cfgctl32"
      [] op \in MaskOps -> "gpio_int_mask1"

\* reg.read() for the register that holds pin p's fields
read(reg, p) ==
    CASE reg = "gpio_cfgctl" -> gpio_cfgctl[CfgReg(p)]
      [] reg = "gpio_cfgctl34" -> gpio_cfgctl34
      [] reg = "gpio_cfgctl32" -> gpio_cfgctl32
      [] reg = "gpio_int_mask1" -> gpio_int_mask1

\* the value the i-th modify() of an operation on pin p writes back, r the
\* register value it read, high what toggle's is_output_high_inner returned
written(op, i, p, r, high) ==
    CASE op \in Transitions /\ i = 1 ->
            cfgctl_with_mode(r, p, ModeArgs(op).mode, ModeArgs(op).pu,
                             ModeArgs(op).pd, ModeArgs(op).ie)
      [] op \in Transitions /\ i = 2 -> oe_with_mode(r, p, ModeArgs(op).ie)
      [] op = "enable_smitter" -> cfgctl_with_smt(r, p, 1)
      [] op = "disable_smitter" -> cfgctl_with_smt(r, p, 0)
      [] op = "set_high" -> set_high_inner(r, p)
      [] op = "set_low" -> set_low_inner(r, p)
      [] op = "toggle" -> IF high THEN set_low_inner(r, p) ELSE set_high_inner(r, p)
      [] op = "enable_interrupt" -> mask_with(r, p, "unmasked")
      [] op = "disable_interrupt" -> mask_with(r, p, "masked")

\* the type of the handle an operation is defined on
can_call(op, p) ==
    CASE op \in Transitions -> pin_mode[p] # NoHandle
      [] op \in SmitterOps \cup MaskOps -> IsInputPin(p)
      [] op \in LatchOps -> IsOutputPin(p)

\* the handle of pin p is inside a call of some context (a handle is owned
\* by one context at a time and its methods take self or &mut self)
in_use(p) == \E c \in Contexts : ctx[c].pc # "idle" /\ ctx[c].pin = p

\* context c has the hart: the interrupt handler preempts the main program
\* at any instruction and runs to its end before the main program goes on
runs(c) == c = "irq" \/ ctx["irq"].pc = "idle"

\* context c calls operation op on pin p; the call runs up to its first
\* register read: the read of the first modify(), or for toggle the read of
\* is_output_high_inner
call(c, op, p) ==
    /\ runs(c)
    /\ ctx[c].pc = "idle"
    /\ can_call(op, p)
    /\ ~in_use(p)
    /\ ctx' = [ctx EXCEPT ![c] =
                  IF op = "toggle"
                  THEN [pc |-> "read", op |-> op, pin |-> p, i |-> 1,
                        high |-> is_output_high_inner(gpio_cfgctl32, p)]
                  ELSE [pc |-> "write", op |-> op, pin |-> p, i |-> 1,
                        high |-> FALSE, snap |-> read(ModifyReg(op, 1), p)]]
    /\ UNCHANGED <<gpio_vars, delay_vars>>

\* the read of the modify() context c has come to
modify_read(c) ==
    /\ runs(c)
    /\ ctx[c].pc = "read"
    /\ ctx' = [ctx EXCEPT ![c] =
                  [pc |-> "write", op |-> @.op, pin |-> @.pin, i |-> @.i,
                   high |-> @.high,
                   snap |-> read(ModifyReg(@.op, @.i), @.pin)]]
    /\ UNCHANGED <<gpio_vars, delay_vars>>

\* the write of the modify() context c is in; after the last modify() the
\* call returns, a mode transition handing out the handle with its new tag
modify_write(c) ==
    /\ runs(c)
    /\ ctx[c].pc = "write"
    /\ LET op == ctx[c].op
           p == ctx[c].pin
           reg == ModifyReg(op, ctx[c].i)
           value == written(op, ctx[c].i, p, ctx[c].snap, ctx[c].high)
           last == ctx[c].i = ModifyCount(op)
       IN
        /\ gpio_cfgctl' =
               IF reg = "gpio_cfgctl"
               THEN [gpio_cfgctl EXCEPT ![CfgReg(p)] = value] ELSE gpio_cfgctl
        /\ gpio_cfgctl34' = IF reg = "gpio_cfgctl34" THEN value ELSE gpio_cfgctl34
        /\ gpio_cfgctl32' = IF reg = "gpio_cfgctl32" THEN value ELSE gpio_cfgctl32
        /\ gpio_int_mask1' = IF reg = "gpio_int_mask1" THEN value ELSE gpio_int_mask1
        /\ pin_mode' =
               IF last /\ op \in Transitions
               THEN [pin_mode EXCEPT ![p] = ModeArgs(op).tag] ELSE pin_mode
        /\ ctx' = [ctx EXCEPT ![c] =
                      IF last THEN IdleContext
                      ELSE [pc |-> "read", op |-> op, pin |-> p, i |-> @.i + 1,
                            high |-> @.high]]
    /\ UNCHANGED <<glb, uart_mux, clk_cfg, gpio_cfgctl30, uart_sig_sel_0,
                   gpio_int_mode_set, gpio_int_clr1, gpio_int_stat1, delay_vars>>

(***************************************************************************)
(* Specifications.                                                         *)
(***************************************************************************)
ModeTransition(p) ==
    \/ into_floating_output(p)
    \/ into_pull_up_output(p)
    \/ into_pull_down_output(p)
    \/ into_floating_input(p)
    \/ into_pull_up_input(p)
    \/ into_pull_down_input(p)
    \/ into_pull_down_pwm(p)
    \/ into_pull_up_pwm(p)
    \/ into_floating_pwm(p)
    \/ into_uart_sig(p)
    \/ into_spi(p)
    \/ into_i2c(p)

InputOp(p) ==
    \/ enable_smitter(p)
    \/ disable_smitter(p)
    \/ is_high(p)
    \/ is_low(p)

InterruptOp(p) ==
    \/ \E event \in Events : trigger_on_event(p, event)
    \/ control_asynchronous(p)
    \/ control_synchronous(p)
    \/ enable_interrupt(p)
    \/ disable_interrupt(p)
    \/ clear_interrupt_pending_bit(p)
    \/ check_interrupt(p)

OutputOp(p) ==
    \/ set_high(p)
    \/ set_low(p)
    \/ is_set_high(p)
    \/ is_set_low(p)
    \/ toggle(p)

Route(k) ==
    \/ into_uart0_rts(k)
    \/ into_uart0_cts(k)
    \/ into_uart0_tx(k)
    \/ into_uart0_rx(k)
    \/ into_uart1_rts(k)
    \/ into_uart1_cts(k)
    \/ into_uart1_tx(k)
    \/ into_uart1_rx(k)

Init == GpioInit /\ DelayIdle

\* the pin mode machine with the input and output operations
Next ==
    \/ split
    \/ \E p \in ActivePins : ModeTransition(p)
    \/ \E p \in ActivePins : InputOp(p)
    \/ \E p \in ActivePins : OutputOp(p)
Spec == Init /\ [][Next]_vars

\* the signal multiplexers
NextMux ==
    \/ split
    \/ \E k \in ActiveMux : Route(k)
SpecMux == Init /\ [][NextMux]_vars

\* one pin and one multiplexer with every operation the HAL has for them
NextFacets ==
    \/ split
    \/ \E p \in FacetPins : ModeTransition(p)
    \/ \E p \in FacetPins : InputOp(p)
    \/ \E p \in FacetPins : InterruptOp(p)
    \/ \E p \in FacetPins : OutputOp(p)
    \/ \E k \in FacetMux : Route(k)
SpecFacets == Init /\ [][NextFacets]_vars

\* the cycle counter and the delay provider
InitDelay == GpioInit /\ DelayInit
NextDelay ==
    \/ tick
    \/ get_cycle_count
    \/ \E prev \in CounterSamples \cup {start_cycle_count} : cycles_since(prev)
SpecDelay == InitDelay /\ [][NextDelay]_vars

\* the core frequencies a provider is built with: 1 Hz, the 160 MHz of the
\* BL602 and u32::MAX
Frequencies == {U64From(1), U64From(160000000), U32Max}
\* the times asked of delay_us / delay_ms
Times ==
    {U64Zero, U64From(1), U64From(1000000), U64Pow2(36), U64Pow2(37), U64Pow2(63),
     U64Max}
\* the cycle counts asked of delay_cycles
CycleCounts ==
    {U64Zero, U64From(1), U64From(3), U64Pow2(62), U64Max}

\* the BL602 core clock: 160 MHz
CoreClock == U64From(160000000)

\* a provider, before its first delay request
DelayProvider(counters, frequencies) ==
    /\ GpioBoot(0)
    /\ mcycle \in counters
    /\ start_cycle_count = U64Zero
    /\ elapsed = -1
    /\ ticks = 0
    /\ dlast = NoDelayOp
    /\ core_frequency \in frequencies
    /\ cycle_count = U64Zero
    /\ delay_pc = "idle"

\* one delay_cycles request, from the call to its return
InitWait == DelayProvider(CounterSamples, {CoreClock})
NextWait ==
    \/ tick
    \/ stall
    \/ \E n \in CycleCounts : delay_cycles(n)
    \/ delay_loop
SpecWait == InitWait /\ [][NextWait]_vars

\* the loop leaves when its test fails
delay_returns == delay_loop /\ delay_pc' = "done"
\* the same, where the counter keeps advancing and the loop, which samples
\* it over and over, does not miss every sample that would end it
SpecWaitFair ==
    SpecWait /\ WF_vars(stall) /\ WF_vars(delay_loop) /\ SF_vars(delay_returns)

\* one delay_us / delay_ms request, from the call to its return or panic
InitDelayTime == DelayProvider({U64Zero, U64Max}, Frequencies)
NextDelayTime ==
    \/ tick
    \/ stall
    \/ \E us \in Times : delay_us(us)
    \/ \E ms \in Times : delay_ms(ms)
    \/ delay_loop
SpecDelayTime == InitDelayTime /\ [][NextDelayTime]_vars

\* the input pins explored with their interrupt operations: the last pin of
\* gpio_int_mode_set1 and the last of gpio_int_mode_set3
InterruptPins == {9, 22}
NextInterrupts ==
    \/ split
    \/ \E p \in InterruptPins : InterruptOp(p)
SpecInterrupts == Init /\ [][NextInterrupts]_vars

\* the mode transitions of the main program, one register access at a time
NextTransient ==
    \/ split
    \/ \E name \in Transitions, p \in ActivePins : call("main", name, p)
    \/ modify_read("main")
    \/ modify_write("main")
SpecTransient == Init /\ [][NextTransient]_vars

\* the operations explored where two contexts interleave
SharedOps ==
    {"into_floating_output", "into_pull_up_input", "set_high", "set_low", "toggle",
     "enable_smitter", "disable_smitter"}

\* the pin whose handle a context was given: pins 0 and 1 share
\* gpio_cfgctl0, the output enable and the output latch register
HandleOf(c) == IF c = "main" THEN 0 ELSE 1

\* two contexts, each using the handle of its pin, the registers booted with
\* the fields of pins 0 and 1 unlike each other
NextShared ==
    \/ split
    \/ \E c \in Contexts, op \in SharedOps : call(c, op, HandleOf(c))
    \/ \E c \in Contexts : modify_read(c)
    \/ \E c \in Contexts : modify_write(c)
InitShared == GpioBoot(2) /\ DelayIdle
SpecShared == InitShared /\ [][NextShared]_vars

\* two pins of one configuration register and a multiplexer: the mode
\* transitions of both pins, the filter and I/O operations of pin 0, the
\* interrupt masking of pin 1 and the routings of the multiplexer
NextAgreement ==
    \/ split
    \/ \E p \in ActivePins : ModeTransition(p)
    \/ InputOp(0)
    \/ OutputOp(0)
    \/ enable_interrupt(1)
    \/ disable_interrupt(1)
    \/ check_interrupt(1)
    \/ \E k \in FacetMux : Route(k)
InitAgreement == GpioBoot(0) /\ DelayIdle
SpecAgreement == InitAgreement /\ [][NextAgreement]_vars

\* two contexts, each masking and unmasking the interrupt of its pin
NextMaskShared ==
    \/ split
    \/ \E c \in Contexts, op \in MaskOps : call(c, op, HandleOf(c))
    \/ \E c \in Contexts : modify_write(c)
SpecMaskShared == Init /\ [][NextMaskShared]_vars

(***************************************************************************)
(* Properties.                                                             *)
(***************************************************************************)
\* the step is the transition called name, on pin p (the tag is tested first:
\* it settles most steps without building the registers into() writes)
Ran(p, name) == pin_mode'[p] = ModeArgs(name).tag /\ into(p, name)

\* the rows of the transition table: function-select, pull-up, pull-down,
\* input-enable
TableRow(name) ==
    CASE name = "into_floating_output" -> <<11, 0, 0, 0>>
      [] name = "into_pull_up_output" -> <<11, 1, 0, 0>>
      [] name = "into_pull_down_output" -> <<11, 0, 1, 0>>
      [] name = "into_floating_input" -> <<11, 0, 0, 1>>
      [] name = "into_pull_up_input" -> <<11, 1, 0, 1>>
      [] name = "into_pull_down_input" -> <<11, 0, 1, 1>>
      [] name = "into_uart_sig" -> <<7, 1, 0, 1>>
      [] name = "into_spi" -> <<4, 1, 0, 1>>
      [] name = "into_i2c" -> <<6, 1, 0, 1>>

\* C1: once a non-PWM mode transition of a pin has returned, whatever the
\* registers held and whatever the pin's mode was, the pin's function-select,
\* pull-up, pull-down and input-enable fields are those of the transition's
\* row of the table, and its drive-strength and schmitt-filter fields are 0.
C1_TransitionWritesTableRow ==
    [][\A p \in ActivePins, name \in NonPwmTransitions :
          Ran(p, name) =>
              /\ Cfg(p, "func_sel")' = TableRow(name)[1]
              /\ Cfg(p, "pu")' = TableRow(name)[2]
              /\ Cfg(p, "pd")' = TableRow(name)[3]
              /\ Cfg(p, "ie")' = TableRow(name)[4]
              /\ Cfg(p, "drv")' = 0
              /\ Cfg(p, "smt")' = 0]_vars

\* a pin that came up with the drive strength and the schmitt filter set has
\* been turned into an SPI pin, its neighbour into a pull-down output
C1_Witness ==
    /\ pin_mode[1] = Spi
    /\ Cfg(1, "func_sel") = 4 /\ Cfg(1, "drv") = 0 /\ Cfg(1, "smt") = 0
    /\ pin_mode[0] = Output("PullDown")
    /\ Cfg(0, "func_sel") = 11 /\ Cfg(0, "pd") = 1 /\ Cfg(0, "ie") = 0

\* C2: each PWM transition writes function-select 8 and input-enable 1, and the
\* pull bits of its own variant, so the pull of the returned Pwm handle's tag
\* agrees with the pull bits in the register.
C2_PwmPullsMatchVariant ==
    [][\A p \in ActivePins, name \in PwmTransitions :
          Ran(p, name) =>
              /\ Cfg(p, "func_sel")' = 8
              /\ Cfg(p, "ie")' = 1
              /\ Cfg(p, "pu")' = Bit(name = "into_pull_up_pwm")
              /\ Cfg(p, "pd")' = Bit(name = "into_pull_down_pwm")
              /\ Cfg(p, "pu")' = Bit(pin_mode'[p].pull = "PullUp")
              /\ Cfg(p, "pd")' = Bit(pin_mode'[p].pull = "PullDown")]_vars

\* C3: after any mode transition of a pin, the pin's output-enable bit is the
\* negation of its input-enable bit: ie = 0 and oe = 1 for the output modes,
\* ie = 1 and oe = 0 for the input, PWM, UART, SPI and I2C modes.
C3_OutputEnableNegatesInputEnable ==
    [][\A p \in ActivePins, name \in Transitions :
          Ran(p, name) =>
              /\ gpio_cfgctl34'[p] = 1 - Cfg(p, "ie")'
              /\ name \in OutputTransitions =>
                     Cfg(p, "ie")' = 0 /\ gpio_cfgctl34'[p] = 1
              /\ name \notin OutputTransitions =>
                     Cfg(p, "ie")' = 1 /\ gpio_cfgctl34'[p] = 0]_vars

\* an output pin next to a PWM pin, each with its enable bits opposite
C3_Witness ==
    /\ pin_mode[0].family = "Output"
    /\ Cfg(0, "ie") = 0 /\ gpio_cfgctl34[0] = 1
    /\ pin_mode[1].family = "Pwm"
    /\ Cfg(1, "ie") = 1 /\ gpio_cfgctl34[1] = 0

\* the selector code of each destination role: UART0 RTS/CTS/TX/RX = 0..3,
\* UART1 RTS/CTS/TX/RX = 4..7
SelectorCode(role) ==
    CASE role = "Uart0Rts" -> 0 [] role = "Uart0Cts" -> 1
      [] role = "Uart0Tx" -> 2 [] role = "Uart0Rx" -> 3
      [] role = "Uart1Rts" -> 4 [] role = "Uart1Cts" -> 5
      [] role = "Uart1Tx" -> 6 [] role = "Uart1Rx" -> 7

\* the step is the routing of multiplexer k to role
Routed(k, role) == uart_mux'[k] = role /\ route(k, role)

\* C4: each routing operation of each multiplexer instance k writes into signal
\* k's own selector field the code in 0..7 of the destination role (UART0
\* RTS/CTS/TX/RX = 0..3, UART1 RTS/CTS/TX/RX = 4..7), no two roles share a
\* code, and the returned handle carries the tag of that role.
C4_RoutingWritesRoleCode ==
    [][\A k \in UartSigs, role \in UartRoles :
          Routed(k, role) =>
              /\ uart_sig_sel_0'[k] = SelectorCode(role)
              /\ uart_sig_sel_0'[k] \in 0 .. 7
              /\ \A other \in UartRoles :
                     other # role => RoleCode(other) # uart_sig_sel_0'[k]
              /\ uart_mux'[k] = role
              /\ \A j \in UartSigs \ {k} :
                     uart_sig_sel_0'[j] = uart_sig_sel_0[j]]_vars

\* multiplexer 2 routed to UART1-TX holds selector code 6, multiplexer 0
\* routed to UART0-RTS holds 0, both from a boot value of another code
C4_Witness ==
    /\ uart_mux[2] = "Uart1Tx" /\ uart_sig_sel_0[2] = 6
    /\ uart_mux[0] = "Uart0Rts" /\ uart_sig_sel_0[0] = 0
    /\ uart_sig_sel_0[1] # 1

\* C5: split happens at most once (it consumes the singleton and is never
\* enabled again), the aggregate it returns holds 23 pin handles all tagged
\* Input<Floating>, 8 multiplexer handles all tagged UART0-CTS and the clock
\* configuration handle, and split writes no register.
C5_SplitOnceWithDefaults ==
    /\ [](glb = "consumed" => ~ENABLED split)
    /\ [][glb = "consumed" => glb' = "consumed"]_vars
    /\ [][split =>
            /\ glb = "owned" /\ glb' = "consumed"
            /\ Cardinality({p \in DOMAIN pin_mode' :
                               pin_mode'[p] = Input("Floating")}) = 23
            /\ DOMAIN pin_mode' = 0 .. 22
            /\ Cardinality({k \in DOMAIN uart_mux' :
                               uart_mux'[k] = "Uart0Cts"}) = 8
            /\ clk_cfg'
            /\ regs' = regs]_vars

\* the singleton is consumed and the handles are out, the registers still
\* as the boot left them
C5_Witness ==
    /\ glb = "consumed"
    /\ clk_cfg
    /\ \A p \in Pins : pin_mode[p] = Input("Floating")
    /\ \A k \in UartSigs : uart_mux[k] = "Uart0Cts"
    /\ Cfg(22, "func_sel") # 11
    /\ ~ENABLED split

InputOnlyEnabled(p) ==
    \/ ENABLED is_high(p)
    \/ ENABLED is_low(p)
    \/ ENABLED enable_smitter(p)
    \/ ENABLED disable_smitter(p)
    \/ \E event \in Events : ENABLED trigger_on_event(p, event)
    \/ ENABLED control_asynchronous(p)
    \/ ENABLED control_synchronous(p)
    \/ ENABLED enable_interrupt(p)
    \/ ENABLED disable_interrupt(p)
    \/ ENABLED clear_interrupt_pending_bit(p)
    \/ ENABLED check_interrupt(p)

OutputOnlyEnabled(p) ==
    \/ ENABLED set_high(p)
    \/ ENABLED set_low(p)
    \/ ENABLED is_set_high(p)
    \/ ENABLED is_set_low(p)
    \/ ENABLED toggle(p)

\* C6: in every reachable state, is_high/is_low, the smitter operations and the
\* interrupt operations are enabled only for a pin whose live handle is tagged
\* Input<_>, and set_high/set_low/is_set_high/is_set_low/toggle only for a pin
\* tagged Output<_>; none is enabled for a pin tagged Pwm, Uart, Spi or I2c or
\* for a pin with no handle, and a pin has one tag at a time, so the tag a
\* transition consumed enables nothing any more.
C6_ModeLegality ==
    \A p \in FacetPins \cup ActivePins :
        /\ InputOnlyEnabled(p) => pin_mode[p].family = "Input"
        /\ OutputOnlyEnabled(p) => pin_mode[p].family = "Output"
        /\ pin_mode[p].family \in {"Pwm", "Uart", "Spi", "I2c", "None"} =>
               ~InputOnlyEnabled(p) /\ ~OutputOnlyEnabled(p)
        /\ pin_mode[p] \in PinTags \cup {NoHandle}

\* pin 22, once an input with its interrupt unmasked, is now an output: the
\* output operations are enabled, the input ones are not
C6_Witness ==
    /\ pin_mode[22].family = "Output"
    /\ gpio_int_mask1[22] = "unmasked"
    /\ IntMode(22, "interrupt_trigger_mode") = 2
    /\ ENABLED toggle(22)
    /\ ~ENABLED is_high(22)
    /\ ~ENABLED enable_interrupt(22)

\* C7: for an output pin and either value of its output latch, one toggle()
\* leaves the latch bit at the opposite value, and a second toggle() right
\* after it brings the latch register back to what it was.
C7_ToggleTwiceRestoresLatch ==
    /\ [][\A p \in ActivePins :
            toggle(p) =>
                /\ gpio_cfgctl32'[p] = 1 - gpio_cfgctl32[p]
                /\ toggle_inner(gpio_cfgctl32', p) = gpio_cfgctl32]_vars
    /\ [](\A p \in ActivePins :
            IsOutputPin(p) =>
                /\ toggle_inner(gpio_cfgctl32, p)[p] = 1 - gpio_cfgctl32[p]
                /\ toggle_inner(toggle_inner(gpio_cfgctl32, p), p) = gpio_cfgctl32)

\* two output pins, one with its latch low and one with its latch high
C7_Witness ==
    /\ IsOutputPin(0) /\ gpio_cfgctl32[0] = 0
    /\ IsOutputPin(1) /\ gpio_cfgctl32[1] = 1

\* C8: for an output pin, is_set_high() is true and is_set_low() false after
\* set_high(), the reverse after set_low(), a toggle() inverts both answers,
\* and in every state the two answers are opposite and are the value of the
\* pin's output-latch bit.
C8_StatefulOutputAnswers ==
    /\ [][\A p \in ActivePins :
            /\ set_high(p) =>
                   /\ is_output_high_inner(gpio_cfgctl32', p)
                   /\ ~is_output_low_inner(gpio_cfgctl32', p)
            /\ set_low(p) =>
                   /\ ~is_output_high_inner(gpio_cfgctl32', p)
                   /\ is_output_low_inner(gpio_cfgctl32', p)
            /\ toggle(p) =>
                   /\ is_output_high_inner(gpio_cfgctl32', p)
                          = ~is_output_high_inner(gpio_cfgctl32, p)
                   /\ is_output_low_inner(gpio_cfgctl32', p)
                          = ~is_output_low_inner(gpio_cfgctl32, p)]_vars
    /\ [](\A p \in ActivePins :
            IsOutputPin(p) =>
                /\ is_output_high_inner(gpio_cfgctl32, p)
                       # is_output_low_inner(gpio_cfgctl32, p)
                /\ is_output_high_inner(gpio_cfgctl32, p) = (gpio_cfgctl32[p] = 1))

\* a pull-up output pin with its latch high while its input level is low
C8_Witness ==
    /\ pin_mode[1] = Output("PullUp")
    /\ gpio_cfgctl32[1] = 1
    /\ gpio_cfgctl30[1] = 0
    /\ is_output_high_inner(gpio_cfgctl32, 1)
    /\ ~is_output_low_inner(gpio_cfgctl32, 1)

\* C9: running a mode transition again right after it has run (the handle it
\* returned is live, so it can) leaves the configuration register and the
\* output-enable register as the first run left them, for every pin, every
\* transition and every starting register state.
C9_TransitionIdempotent ==
    [][\A p \in ActivePins, name \in Transitions :
          Ran(p, name) =>
              /\ cfgctl_with_mode(gpio_cfgctl'[CfgReg(p)], p, ModeArgs(name).mode,
                                  ModeArgs(name).pu, ModeArgs(name).pd,
                                  ModeArgs(name).ie)
                     = gpio_cfgctl'[CfgReg(p)]
              /\ oe_with_mode(gpio_cfgctl34', p, ModeArgs(name).ie) = gpio_cfgctl34'
              /\ pin_mode'[p] # NoHandle]_vars

\* a floating PWM pin whose registers came from a boot image with every field
\* set, next to a pull-up input
C9_Witness ==
    /\ pin_mode[0] = Pwm("Floating")
    /\ Cfg(0, "func_sel") = 8 /\ gpio_cfgctl34[0] = 0
    /\ pin_mode[1] = Input("PullUp")
    /\ gpio_cfgctl32[0] = 1 /\ gpio_cfgctl30[0] = 1

\* C10: cycles_since(start) is (counter - start) modulo 2^64 for every pair of
\* 64-bit values: adding it back to start gives the counter, and when start is
\* the sample get_cycle_count took it is the number of cycles the counter has
\* advanced since, also when the counter wrapped past its maximum.
C10_CyclesSinceWraps ==
    dlast.op = "cycles_since" =>
        /\ wrapping_add(dlast.arg, dlast.ret) = mcycle
        /\ (elapsed >= 0 /\ dlast.arg = start_cycle_count) =>
               dlast.ret = U64Of(elapsed)

\* the counter wrapped between the sample and the read: it is below the
\* sample, and cycles_since returned the cycles that went by
C10_Witness ==
    /\ dlast.op = "cycles_since"
    /\ dlast.arg = start_cycle_count
    /\ elapsed >= 3
    /\ U64Less(mcycle, start_cycle_count)
    /\ dlast.ret = U64Of(elapsed)

\* C11: whenever delay_cycles(n) leaves its loop, the cycles elapsed since
\* the start sample it took, modulo 2^64, are strictly more than n at that
\* sample (and so is the tally of the cycles that really passed, where it is
\* kept); while the elapsed cycles are at most n the loop test does not let
\* the loop end.
C11_DelayCyclesWaitsLongEnough ==
    /\ [][(delay_pc = "loop" /\ delay_pc' = "done") =>
            /\ U64Less(cycle_count, wrapping_sub(mcycle, start_cycle_count))
            /\ dlast'.ret = wrapping_sub(mcycle, start_cycle_count)
            /\ elapsed >= 0 => U64Less(cycle_count, U64Of(elapsed))]_vars
    /\ [][(delay_pc = "loop" /\ delay_pc' # delay_pc) =>
            ~U64LessEq(wrapping_sub(mcycle, start_cycle_count), cycle_count)]_vars
    /\ [](delay_pc = "done" /\ dlast.op = "cycles_since" =>
            U64Less(cycle_count, dlast.ret))
\* delay_cycles(3) has returned after exactly four cycles, the counter having
\* wrapped through 0 during the wait
C11_Witness ==
    /\ delay_pc = "done"
    /\ dlast.op = "cycles_since"
    /\ cycle_count = U64From(3)
    /\ elapsed = 4
    /\ U64Less(mcycle, start_cycle_count)

\* a u64 as a 128-bit value
Widen(a) == [k \in WideDigits |-> IF k \in Digits THEN a[k] ELSE 0]
\* floor(t * freq / per_second), computed on 128 bits
ExactCycles(t, freq, per_second) == DivSmall(WideMul(t, freq), per_second, 16)

\* C12: for every 64-bit time and every 32-bit core frequency, delay_us(us)
\* waits on floor(us * frequency / 1_000_000) cycles and delay_ms(ms) on
\* floor(ms * frequency / 1_000) cycles: the product does not overflow, so
\* the call neither panics nor waits on a smaller count.
C12_DelayTimeCyclesExact ==
    /\ delay_pc # "panicked"
    /\ dlast.op = "delay_us" =>
           Widen(dlast.ret) = ExactCycles(dlast.arg, core_frequency, 1000000)
    /\ dlast.op = "delay_ms" =>
           Widen(dlast.ret) = ExactCycles(dlast.arg, core_frequency, 1000)

\* C13: for a fixed core frequency and every t whose double is a u64, the
\* cycle count delay_us(2 * t) waits on is at least the cycle count
\* delay_us(t) waits on.
C13_DelayUsMonotonic ==
    (dlast.op = "delay_us" /\ delay_pc = "loop" /\ U64Less(dlast.arg, U64Pow2(63))) =>
        U64LessEq(cycle_count,
                  cycles_of(wrapping_add(dlast.arg, dlast.arg), core_frequency, 1000000))

\* C14: every delay_cycles(n) call, for every 64-bit n, 2^64 - 1 included,
\* and every starting counter value, eventually returns, given that the
\* counter keeps advancing between the samples.
C14_DelayCyclesReturns == (delay_pc = "loop") ~> (delay_pc = "done")

\* the fields of pin p in register reg
FieldsOf(reg, p) == IF reg = "gpio_cfgctl" THEN {p} \X CfgFields ELSE {p}

\* the register that holds pin p's fields, after the step
read_after(reg, p) ==
    CASE reg = "gpio_cfgctl" -> gpio_cfgctl'[CfgReg(p)]
      [] reg = "gpio_cfgctl34" -> gpio_cfgctl34'
      [] reg = "gpio_cfgctl32" -> gpio_cfgctl32'
      [] reg = "gpio_int_mask1" -> gpio_int_mask1'
\* the step is a register write of context c
Writes(c) == ctx[c].pc = "write" /\ ctx'[c] # ctx[c]
\* the step changes no field of register reg but those of pin p
OnlyFieldsOf(reg, p) ==
    \A f \in DOMAIN read(reg, p) \ FieldsOf(reg, p) :
        read_after(reg, p)[f] = read(reg, p)[f]

\* C15: operations on two different pins whose register reads and writes
\* interleave leave the registers as running them one after the other does:
\* no pin's update is lost or overwritten, so a register write of an
\* operation on pin p changes no field of another pin, also where both
\* pins' fields live in one register.
C15_OtherPinsUpdatesKept ==
    [][\A c \in Contexts :
         Writes(c) => OnlyFieldsOf(ModifyReg(ctx[c].op, ctx[c].i), ctx[c].pin)]_vars

\* the 2-bit code of each trigger event: negative edge, positive edge,
\* negative level, positive level
TriggerCode(event) ==
    CASE event = "NegativePulse" -> 0
      [] event = "PositivePulse" -> 1
      [] event = "NegativeLevel" -> 2
      [] event = "HighLevel" -> 3

\* C16: trigger_on_event(event) on an input pin writes the event's 2-bit code
\* (negative edge 0, positive edge 1, negative level 2, positive level 3, four
\* distinct codes) into the pin's trigger-mode field and leaves the
\* trigger-mode and control-mode fields of every other pin of the same
\* interrupt-mode register, and the pin's own control mode, as they were.
C16_TriggerOnEventWritesCode ==
    /\ [][\A p \in FacetPins, event \in Events :
            trigger_on_event(p, event) =>
                /\ IsInputPin(p)
                /\ gpio_int_mode_set'[IntModeReg(p)][<<p, "interrupt_trigger_mode">>]
                       = TriggerCode(event)
                /\ \A r \in IntModeRegs :
                       \A f \in IntModeFieldsOf(r) \ {<<p, "interrupt_trigger_mode">>} :
                           gpio_int_mode_set'[r][f] = gpio_int_mode_set[r][f]]_vars
    /\ [](\A e1, e2 \in Events : TriggerCode(e1) = TriggerCode(e2) => e1 = e2)
\* pin 22 was set to trigger on a negative level (code 2) while pins 20 and
\* 21 of the same register still hold the trigger modes they booted with
C16_Witness ==
    /\ IsInputPin(22)
    /\ IntMode(22, "interrupt_trigger_mode") = 2
    /\ IntMode(21, "interrupt_trigger_mode") \in {0, 1, 3}
    /\ IntMode(20, "interrupt_trigger_mode") \in {0, 1, 3}
    /\ IntMode(20, "interrupt_trigger_mode") # IntMode(21, "interrupt_trigger_mode")

\* C17: in a single context, enable_interrupt() / disable_interrupt() on pin
\* i leave pin i's bit of the interrupt mask register unmasked / masked, and
\* the mask bit of every other pin is after the call what it was before,
\* whatever enable and disable calls came earlier.
C17_MaskChangesOwnBitOnly ==
    [][\A p \in InterruptPins :
         /\ (enable_interrupt(p) \/ disable_interrupt(p)) =>
                \A q \in Pins \ {p} : gpio_int_mask1'[q] = gpio_int_mask1[q]
         /\ enable_interrupt(p) => gpio_int_mask1'[p] = "unmasked"
         /\ disable_interrupt(p) => gpio_int_mask1'[p] = "masked"]_vars
\* pin 9 is masked and pin 22 unmasked, each the opposite of what it booted
\* with, next to pins that were never touched and are not all alike
C17_Witness ==
    /\ IsInputPin(9) /\ IsInputPin(22)
    /\ gpio_int_mask1[9] = "masked"
    /\ gpio_int_mask1[22] = "unmasked"
    /\ gpio_int_mask1[0] = "unmasked"
    /\ gpio_int_mask1[21] = "unmasked"
    /\ gpio_int_mask1[10] = "masked"

\* C18: every mode transition makes exactly two register updates, first the
\* pin's configuration register and then the output enable register.  After
\* the first, the output enable bit is still the old one: where it was the
\* negation of the old input enable and the transition changes the input
\* enable, the pin now has oe = ie (an input turned output has ie = 0 and
\* oe = 0, an output turned input has ie = 1 and oe = 1).  After the second
\* update oe is the negation of ie again, and the transition returns.
C18_TwoUpdatesConfigFirst ==
    [][(Writes("main") /\ ctx["main"].op \in Transitions) =>
        LET p == ctx["main"].pin
            ie == Bit(ModeArgs(ctx["main"].op).ie)
        IN  /\ ctx["main"].i \in {1, 2}
            /\ ctx["main"].i = 1 =>
                   /\ gpio_cfgctl'[CfgReg(p)][<<p, "ie">>] = ie
                   /\ gpio_cfgctl34' = gpio_cfgctl34
                   /\ pin_mode' = pin_mode
                   /\ ctx'["main"].pc = "read" /\ ctx'["main"].i = 2
                   /\ (gpio_cfgctl34[p] = 1 - Cfg(p, "ie") /\ Cfg(p, "ie") # ie) =>
                          gpio_cfgctl34'[p] = ie
            /\ ctx["main"].i = 2 =>
                   /\ gpio_cfgctl' = gpio_cfgctl
                   /\ Cfg(p, "ie") = ie
                   /\ gpio_cfgctl34'[p] = 1 - ie
                   /\ pin_mode'[p] = ModeArgs(ctx["main"].op).tag
                   /\ ctx'["main"] = IdleContext]_vars
\* pin 1, an output with ie = 0 and oe = 1, is between the two updates of
\* into_pull_up_input: ie = 1 and oe = 1
C18_Witness ==
    /\ ctx["main"].pc = "read"
    /\ ctx["main"].op = "into_pull_up_input"
    /\ ctx["main"].pin = 1
    /\ pin_mode[1] = Output("Floating")
    /\ Cfg(1, "ie") = 1
    /\ gpio_cfgctl34[1] = 1

\* C19: in a single context, a mode transition of pin i leaves as they were
\* the function-select, input-enable, pull-up, pull-down, drive and schmitt
\* fields and the output enable bit of every other pin (the pin that shares
\* pin i's configuration register included), the output latch bits of all
\* pins and every multiplexer selector.
C19_TransitionKeepsOtherPins ==
    [][\A p \in ActivePins, name \in Transitions :
         Ran(p, name) =>
            /\ \A q \in Pins \ {p} :
                   /\ \A f \in CfgFields :
                          gpio_cfgctl'[CfgReg(q)][<<q, f>>] = Cfg(q, f)
                   /\ gpio_cfgctl34'[q] = gpio_cfgctl34[q]
            /\ gpio_cfgctl32' = gpio_cfgctl32
            /\ uart_sig_sel_0' = uart_sig_sel_0]_vars
\* pin 0 went through a transition and was driven high, while pin 1, in the
\* same configuration register, holds the values it booted with, which no
\* transition writes
C19_Witness ==
    /\ pin_mode[0] = Output("PullUp")
    /\ Cfg(0, "func_sel") = GPIO_FUN_SWGPIO
    /\ gpio_cfgctl34[0] = 1
    /\ gpio_cfgctl32[0] = 1
    /\ pin_mode[1] = Input("Floating")
    /\ Cfg(1, "func_sel") = 15
    /\ Cfg(1, "drv") = 3
    /\ gpio_cfgctl34[1] = 1

\* C20: nothing protects the read-modify-write of the interrupt mask
\* register.  While an enable_interrupt / disable_interrupt of pin i is
\* between its register read and its register write, another context can
\* run enable_interrupt / disable_interrupt of a pin j # i, and the write of
\* pin i's call then stores the value read earlier: pin j's mask bit goes
\* back to its old value.
C20_MaskUpdateCanBeLost ==
    /\ [](\A op \in MaskOps :
             (ctx["main"].pc = "write" /\ ctx["irq"].pc = "idle") =>
                 ENABLED call("irq", op, HandleOf("irq")))
    /\ [][(Writes("main") /\ ctx["main"].op \in MaskOps) =>
            \A q \in Pins \ {ctx["main"].pin} :
                gpio_int_mask1'[q] = ctx["main"].snap[q]]_vars
\* the main program has read the mask register in disable_interrupt of pin
\* 0; since then the interrupt handler has unmasked pin 1, which the value
\* the main program is about to write has masked
C20_Witness ==
    /\ ctx["main"].pc = "write"
    /\ ctx["main"].op = "disable_interrupt"
    /\ ctx["main"].pin = 0
    /\ ctx["irq"].pc = "idle"
    /\ ctx["main"].snap[1] = "masked"
    /\ gpio_int_mask1[1] = "unmasked"

\* C21: clear_interrupt_pending_bit() on input pin i writes 1, the clear
\* request, into pin i's bit of the interrupt clear register (so that the
\* pending status of pin i goes away), and leaves every other pin's bit of
\* that register as it was.
C21_ClearPendingAssertsBit ==
    [][\A p \in InterruptPins :
         (IsInputPin(p) /\ clear_interrupt_pending_bit(p)) =>
            /\ gpio_int_clr1'[p] = 1
            /\ \A q \in Pins \ {p} : gpio_int_clr1'[q] = gpio_int_clr1[q]]_vars

\* the step changes the schmitt field of pin p to v and nothing else: no
\* tag, no other field of the pin, no field of another pin, no other register
OnlySmt(p, v) ==
    /\ gpio_cfgctl'[CfgReg(p)][<<p, "smt">>] = v
    /\ pin_mode' = pin_mode
    /\ \A q \in Pins, f \in CfgFields :
           <<q, f>> # <<p, "smt">> => gpio_cfgctl'[CfgReg(q)][<<q, f>>] = Cfg(q, f)
    /\ UNCHANGED <<gpio_cfgctl30, gpio_cfgctl32, gpio_cfgctl34, uart_sig_sel_0,
                   gpio_int_mode_set, gpio_int_mask1, gpio_int_clr1, gpio_int_stat1>>

\* C22: enable_smitter() / disable_smitter() on an input pin change only
\* that pin's schmitt-filter bit, to 1 / to 0: the pin's tag, its
\* function-select, input-enable, pull and drive fields, its output enable
\* bit and every field of every other pin stay as they were; any later mode
\* transition of the pin puts the schmitt-filter bit back to 0.
C22_SmitterChangesOwnBitOnly ==
    [][\A p \in ActivePins :
         /\ (IsInputPin(p) /\ pin_mode' = pin_mode /\ enable_smitter(p)) =>
                OnlySmt(p, 1)
         /\ (IsInputPin(p) /\ pin_mode' = pin_mode /\ disable_smitter(p)) =>
                OnlySmt(p, 0)
         /\ \A name \in Transitions :
                Ran(p, name) => gpio_cfgctl'[CfgReg(p)][<<p, "smt">>] = 0]_vars
\* pin 0 was made a pull-up input, which cleared its filter bit, and then
\* had the filter switched on; pin 1 next to it has the filter off
C22_Witness ==
    /\ pin_mode[0] = Input("PullUp")
    /\ Cfg(0, "func_sel") = GPIO_FUN_SWGPIO
    /\ Cfg(0, "pu") = 1 /\ Cfg(0, "pd") = 0 /\ Cfg(0, "drv") = 0
    /\ Cfg(0, "ie") = 1 /\ gpio_cfgctl34[0] = 0
    /\ Cfg(0, "smt") = 1
    /\ Cfg(1, "smt") = 0

\* the function-select, input enable and output enable of each tag family
FamilyRow(family) ==
    CASE family = "Output" -> <<11, 0, 1>>
      [] family = "Input" -> <<11, 1, 0>>
      [] family = "Pwm" -> <<8, 1, 0>>
      [] family = "Uart" -> <<7, 1, 0>>
      [] family = "Spi" -> <<4, 1, 0>>
      [] family = "I2c" -> <<6, 1, 0>>
\* the mode registers of pin p, in the state and after the step
ModeRegs(p) == <<Cfg(p, "func_sel"), Cfg(p, "ie"), gpio_cfgctl34[p]>>
ModeRegsAfter(p) ==
    <<gpio_cfgctl'[CfgReg(p)][<<p, "func_sel">>], gpio_cfgctl'[CfgReg(p)][<<p, "ie">>],
      gpio_cfgctl34'[p]>>
\* pin p has a handle and its registers match the family of its tag
Agrees(p) == pin_mode[p] # NoHandle /\ ModeRegs(p) = FamilyRow(pin_mode[p].family)
AgreesAfter(p) ==
    pin_mode'[p] # NoHandle /\ ModeRegsAfter(p) = FamilyRow(pin_mode'[p].family)
\* the step is a mode transition of pin p that changed its tag or registers
Retagged(p) ==
    /\ pin_mode[p] # NoHandle
    /\ pin_mode'[p] # pin_mode[p] \/ ModeRegsAfter(p) # ModeRegs(p)
\* the same for multiplexer k and the selector code of its role
MuxAgrees(k) == uart_mux[k] \in UartRoles /\ uart_sig_sel_0[k] = SelectorCode(uart_mux[k])
MuxAgreesAfter(k) ==
    uart_mux'[k] \in UartRoles /\ uart_sig_sel_0'[k] = SelectorCode(uart_mux'[k])
Rerouted(k) ==
    /\ uart_mux[k] \in UartRoles
    /\ uart_mux'[k] # uart_mux[k] \/ uart_sig_sel_0'[k] # uart_sig_sel_0[k]

\* C23: in a single context, a pin that went through a mode transition has
\* registers that match the family of its tag (Output: function-select 11,
\* ie 0, oe 1; Input: 11, ie 1, oe 0; Pwm: 8; Uart: 7; Spi: 4; I2c: 6, each
\* with ie 1, oe 0) and a routed multiplexer has the selector code of its
\* role: every transition and every routing establishes the agreement, and
\* no later operation on this or another pin or multiplexer breaks it.
C23_TagsAgreeWithRegisters ==
    /\ [][\A p \in Pins : (Agrees(p) \/ Retagged(p)) => AgreesAfter(p)]_vars
    /\ [][\A k \in UartSigs : (MuxAgrees(k) \/ Rerouted(k)) => MuxAgreesAfter(k)]_vars
    /\ [][\A p \in ActivePins, name \in {"into_floating_input", "into_spi"} :
            Ran(p, name) => AgreesAfter(p)]_vars
\* pin 0 is an output that was toggled high, pin 1 a PWM pin with its
\* interrupt unmasked, multiplexer 2 routed to UART1 TX: all agree
C23_Witness ==
    /\ pin_mode[0].family = "Output" /\ Agrees(0) /\ gpio_cfgctl32[0] = 1
    /\ pin_mode[1].family = "Pwm" /\ Agrees(1) /\ gpio_int_mask1[1] = "unmasked"
    /\ uart_mux[2] = "Uart1Tx" /\ MuxAgrees(2)
====
